---- MODULE Spec2Model ----
(***************************************************************************)
(* Nine-patch resize (src/src/lib.rs): the border-marker parsers, the      *)
(* content extractor, the nine-cell scaler and the two exported entry      *)
(* points nine_patch and nine_patch_content_info.                          *)
(*                                                                         *)
(* A bitmap is a record [width, height, px, put]: px maps <<x, y>> to an   *)
(* RGBA quadruple; put is history only: one entry per copy_region call     *)
(* made on the buffer, the set of coordinates that call put_pixel'ed.      *)
(***************************************************************************)
EXTENDS Integers, Sequences, FiniteSets, TLC

VARIABLES
    image_bytes,    \* the encoded image both entry points are called with
    width,          \* nine_patch's width argument: 4 little-endian bytes
    height,         \* nine_patch's height argument: 4 little-endian bytes
    resize,         \* <<>> until nine_patch is called, then <<the Vec it returned>>
    resize_impl,    \* then also <<the Result of nine_patch_impl>>: [ok, val, err]
    stretch_info,   \* nine_patch_impl's local, <<>> until it is bound
    content_img,    \* nine_patch_impl's local, <<>> until it is bound
    result_img,     \* nine_patch_impl's local, <<>> until it is bound
    faults,         \* history only: the unsigned subtractions that underflowed
                    \* and the pixel accesses outside their bitmap during
                    \* nine_patch, each named by its source expression
    info,           \* <<>> until nine_patch_content_info is called, then <<its Vec>>
    info_impl,      \* then also <<the Result of nine_patch_content_info_impl>>
    content_info,   \* nine_patch_content_info_impl's local, <<>> until it is bound
    info_stretch,   \* nine_patch_content_info_impl's stretch_info, <<>> until bound
    sampling        \* <<>>, or <<one iteration of resize_image's loop>>: the cell
                    \* sizes, the destination pixel, the build, and out: <<>>
                    \* until the loop body has run for that pixel

inputs == <<image_bytes, width, height>>

resize_vars == <<resize, resize_impl, stretch_info, content_img, result_img, faults>>

info_vars == <<info, info_impl, content_info, info_stretch>>

vars == <<inputs, resize_vars, info_vars, sampling>>

(***************************** bounds ***************************************)
MaxWidth == 5
MaxHeight == 4
MaxMarkers == 2
MaxTarget == 3

(***************************** let ******************************************)
(* let x = e; F(x): e is evaluated once and bound as a value, as a Rust    *)
(* let binds it.  In an action the same is written \E x \in {e} : F(x).     *)
Let(e, F(_)) == CHOOSE r \in {F(x) : x \in {e}} : TRUE

(***************************** u32 and bytes ********************************)
Byte == 2 ^ 8

\* u32::to_le_bytes
to_le_bytes(v) ==
    << v % Byte, (v \div Byte) % Byte, (v \div (Byte * Byte)) % Byte,
       (v \div (Byte * Byte * Byte)) % Byte >>

\* u32::from_le_bytes([b[0], b[1], b[2], b[3]])
from_le_bytes(b) ==
    b[1] + Byte * b[2] + Byte * Byte * b[3] + Byte * Byte * Byte * b[4]

\* Column k of the schoolbook product of two little-endian words: the sum of
\* a[j] * b[k - j] over the bytes j = 0 .. i.
RECURSIVE column(_, _, _, _)
column(a, b, k, i) ==
    IF i < 0 THEN 0
    ELSE (IF k - i \in 0 .. 3 THEN a[i + 1] * b[k - i + 1] ELSE 0)
           + column(a, b, k, i - 1)

\* the eight little-endian bytes of the product of two words, from byte k on
RECURSIVE product_bytes(_, _, _, _)
product_bytes(a, b, k, carry) ==
    IF k = 8 THEN <<>>
    ELSE Let(carry + column(a, b, k, 3), LAMBDA s :
           <<s % Byte>> \o product_bytes(a, b, k + 1, s \div Byte))

\* The u32 product a * b (x * src_width in resize_image): the low 32 bits as
\* a little-endian word, and whether the product needed more than 32 bits.
\* Operands below 2^15 have a product below 2^30, which is taken directly.
Mul32(a, b) ==
    IF a < 2 ^ 15 /\ b < 2 ^ 15
    THEN [low |-> to_le_bytes(a * b), overflow |-> FALSE]
    ELSE Let(product_bytes(to_le_bytes(a), to_le_bytes(b), 0, 0), LAMBDA p :
           [low |-> SubSeq(p, 1, 4),
            overflow |-> SubSeq(p, 5, 8) # <<0, 0, 0, 0>>])

Quarter == 2 ^ 30

\* The u32 quotient word / n (n >= 1) of a little-endian word; the word is
\* split at bit 30 so that no intermediate value leaves the integers of the
\* checker (exact for n below 2^29 and a quotient below 2^31).
Div32(word, n) ==
    LET top == word[4] \div 64
        rest == from_le_bytes([word EXCEPT ![4] = @ % 64])
    IN top * (Quarter \div n) + rest \div n
         + (top * (Quarter % n) + (rest % n)) \div n

Min2(a, b) == IF a <= b THEN a ELSE b

(***************************** pixels and bitmaps ***************************)
Black == <<0, 0, 0, 255>>

\* the pixel of a fresh ImageBuffer
Zero == <<0, 0, 0, 0>>

Coords(w, h) == (0 .. w - 1) \X (0 .. h - 1)

\* ImageBuffer::new
NewImage(w, h) ==
    [width |-> w, height |-> h, px |-> [p \in Coords(w, h) |-> Zero], put |-> <<>>]

get_pixel(img, x, y) == img.px[<<x, y>>]

(***************************** the raster codec *****************************)
(* The codec is the image crate.  Its container is modelled as an 8-byte   *)
(* header (width and height, little-endian) followed by the RGBA bytes in  *)
(* row-major order.  As in PNG, a zero width or height is not              *)
(* representable: the encoder refuses it and the decoder rejects it.       *)
\* the RGBA bytes of img, row-major
Flatten(img) ==
    [i \in 1 .. 4 * img.width * img.height |->
       get_pixel(img, ((i - 1) \div 4) % img.width, ((i - 1) \div 4) \div img.width)
         [((i - 1) % 4) + 1]]

\* result_img.write_to(&mut cursor, ImageFormat::Png)
write_to(img) ==
    IF img.width = 0 \/ img.height = 0
    THEN [ok |-> FALSE, bytes |-> <<>>]
    ELSE [ok |-> TRUE,
          bytes |-> to_le_bytes(img.width) \o to_le_bytes(img.height) \o Flatten(img)]

HeaderLen == Len(to_le_bytes(0)) + Len(to_le_bytes(0))

\* the bitmap a well-formed byte string of a w x h image holds
Pixels(bytes, w, h) ==
    [width |-> w, height |-> h,
     px |-> [p \in Coords(w, h) |->
               LET at(c) == bytes[HeaderLen + 4 * (p[2] * w + p[1]) + c]
               IN <<at(1), at(2), at(3), at(4)>>],
     put |-> <<>>]

\* image::load_from_memory(image_bytes) followed by to_rgba8()
load_from_memory(bytes) ==
    IF Len(bytes) < HeaderLen THEN [ok |-> FALSE, img |-> NewImage(0, 0)]
    ELSE Let(from_le_bytes(SubSeq(bytes, 1, 4)), LAMBDA w :
         Let(from_le_bytes(SubSeq(bytes, 5, 8)), LAMBDA h :
           IF w = 0 \/ h = 0 \/ Len(bytes) # HeaderLen + 4 * w * h
           THEN [ok |-> FALSE, img |-> NewImage(0, 0)]
           ELSE [ok |-> TRUE, img |-> Pixels(bytes, w, h)]))

(***************************** BorderParser *********************************)
\* the scan loop of parse_stretch_line, from index i on; acc holds the two
\* Options stretch_start and stretch_end (<<>> is None, <<v>> is Some(v))
RECURSIVE stretch_loop(_, _, _, _, _, _)
stretch_loop(img, coord, length, horizontal, i, acc) ==
    IF i >= length - 1 THEN acc
    ELSE Let(IF horizontal THEN get_pixel(img, i, coord) ELSE get_pixel(img, coord, i),
             LAMBDA pixel :
         Let(IF pixel = Black
             THEN [stretch_start |-> IF acc.stretch_start = <<>>
                                     THEN <<i - 1>> ELSE acc.stretch_start,
                   stretch_end |-> <<i - 1>>]
             ELSE acc,
             LAMBDA next : stretch_loop(img, coord, length, horizontal, i + 1, next)))

\* parse_stretch_line with the end left inclusive (end instead of end + 1)
parse_stretch_line_inclusive(img, coord, length, horizontal) ==
    Let(stretch_loop(img, coord, length, horizontal, 1,
                     [stretch_start |-> <<>>, stretch_end |-> <<>>]),
        LAMBDA r :
          IF r.stretch_start # <<>> /\ r.stretch_end # <<>>
          THEN <<r.stretch_start[1], r.stretch_end[1]>>
          ELSE LET content_length == length - 2
               IN <<content_length, content_length>>)

\* parse_stretch_line with the scan starting at the corner (0 .. length-1)
parse_stretch_line_corner(img, coord, length, horizontal) ==
    Let(stretch_loop(img, coord, length, horizontal, 0,
                     [stretch_start |-> <<>>, stretch_end |-> <<>>]),
        LAMBDA r :
          IF r.stretch_start # <<>> /\ r.stretch_end # <<>>
          THEN <<r.stretch_start[1], r.stretch_end[1] + 1>>
          ELSE LET content_length == length - 2
               IN <<content_length, content_length>>)

parse_stretch_line(img, coord, length, horizontal) ==
    Let(stretch_loop(img, coord, length, horizontal, 1,
                     [stretch_start |-> <<>>, stretch_end |-> <<>>]),
        LAMBDA r :
          IF r.stretch_start # <<>> /\ r.stretch_end # <<>>
          THEN <<r.stretch_start[1], r.stretch_end[1] + 1>>
          ELSE LET content_length == length - 2
               IN <<content_length, content_length>>)

\* parse_nine_patch_borders with right_fixed and bottom_fixed taken from the
\* span starts
parse_nine_patch_borders_start(img) ==
    Let(parse_stretch_line(img, 0, img.width, TRUE), LAMBDA h :
    Let(parse_stretch_line(img, 0, img.height, FALSE), LAMBDA v :
      LET content_width == img.width - 2
          content_height == img.height - 2
      IN [left_fixed |-> h[1],
          right_fixed |-> content_width - h[1],
          top_fixed |-> v[1],
          bottom_fixed |-> content_height - v[1],
          stretch_left |-> h[1],
          stretch_right |-> h[2],
          stretch_top |-> v[1],
          stretch_bottom |-> v[2]]))

parse_nine_patch_borders(img) ==
    Let(parse_stretch_line(img, 0, img.width, TRUE), LAMBDA h :
    Let(parse_stretch_line(img, 0, img.height, FALSE), LAMBDA v :
      LET content_width == img.width - 2
          content_height == img.height - 2
      IN [left_fixed |-> h[1],
          right_fixed |-> content_width - h[2],
          top_fixed |-> v[1],
          bottom_fixed |-> content_height - v[2],
          stretch_left |-> h[1],
          stretch_right |-> h[2],
          stretch_top |-> v[1],
          stretch_bottom |-> v[2]]))

\* {name} when the unsigned subtraction a - b underflows
underflow(name, a, b) == IF a < b THEN {name} ELSE {}

\* {name} when one of the coordinates in `at` lies outside bitmap img
outside(name, at, img) ==
    IF at \subseteq Coords(img.width, img.height) THEN {} ELSE {name}

\* parse_stretch_line: length - 1 of the loop range, get_pixel at each scanned
\* index, i - 1 at each marker, length - 2 of the fallback
parse_stretch_line_faults(img, coord, length, horizontal) ==
    LET scanned == 1 .. length - 2
        at(i) == IF horizontal THEN <<i, coord>> ELSE <<coord, i>>
        markers == {i \in scanned :
                      /\ at(i) \in Coords(img.width, img.height)
                      /\ get_pixel(img, at(i)[1], at(i)[2]) = Black}
    IN underflow("length - 1", length, 1)
         \cup outside("img.get_pixel", {at(i) : i \in scanned}, img)
         \cup UNION {underflow("i - 1", i, 1) : i \in markers}
         \cup (IF markers = {} THEN underflow("length - 2", length, 2) ELSE {})

\* parse_nine_patch_borders: the two scans, width - 2, height - 2,
\* content_width - stretch_right, content_height - stretch_bottom
parse_nine_patch_borders_faults(img) ==
    Let(parse_stretch_line(img, 0, img.width, TRUE), LAMBDA h :
    Let(parse_stretch_line(img, 0, img.height, FALSE), LAMBDA v :
      parse_stretch_line_faults(img, 0, img.width, TRUE)
        \cup parse_stretch_line_faults(img, 0, img.height, FALSE)
        \cup underflow("width - 2", img.width, 2)
        \cup underflow("height - 2", img.height, 2)
        \cup underflow("content_width - stretch_right", img.width - 2, h[2])
        \cup underflow("content_height - stretch_bottom", img.height - 2, v[2])))

(***************************** ContentInfoParser ****************************)
RECURSIVE content_loop(_, _, _, _, _, _)
content_loop(img, coord, length, horizontal, i, acc) ==
    IF i >= length - 1 THEN acc
    ELSE Let(IF horizontal THEN get_pixel(img, i, coord) ELSE get_pixel(img, coord, i),
             LAMBDA pixel :
         Let(IF pixel = Black
             THEN [content_start |-> IF acc.content_start = <<>>
                                     THEN <<i - 1>> ELSE acc.content_start,
                   content_end |-> <<i - 1>>]
             ELSE acc,
             LAMBDA next : content_loop(img, coord, length, horizontal, i + 1, next)))

\* parse_content_line with the stretch scan's fallback
parse_content_line_degenerate(img, coord, length, horizontal) ==
    Let(content_loop(img, coord, length, horizontal, 1,
                     [content_start |-> <<>>, content_end |-> <<>>]),
        LAMBDA r :
          IF r.content_start # <<>> /\ r.content_end # <<>>
          THEN <<r.content_start[1], r.content_end[1] + 1>>
          ELSE <<length - 2, length - 2>>)

parse_content_line(img, coord, length, horizontal) ==
    Let(content_loop(img, coord, length, horizontal, 1,
                     [content_start |-> <<>>, content_end |-> <<>>]),
        LAMBDA r :
          IF r.content_start # <<>> /\ r.content_end # <<>>
          THEN <<r.content_start[1], r.content_end[1] + 1>>
          ELSE <<0, length - 2>>)

\* parse_content_borders reading the top row and the left column
parse_content_borders_top_left(img) ==
    Let(parse_content_line(img, 0, img.width, TRUE), LAMBDA h :
    Let(parse_content_line(img, 0, img.height, FALSE), LAMBDA v :
      LET content_width == img.width - 2
          content_height == img.height - 2
      IN [content_left |-> h[1],
          content_top |-> v[1],
          content_right |-> content_width - h[2],
          content_bottom |-> content_height - v[2]]))

parse_content_borders(img) ==
    Let(parse_content_line(img, img.height - 1, img.width, TRUE), LAMBDA h :
    Let(parse_content_line(img, img.width - 1, img.height, FALSE), LAMBDA v :
      LET content_width == img.width - 2
          content_height == img.height - 2
      IN [content_left |-> h[1],
          content_top |-> v[1],
          content_right |-> content_width - h[2],
          content_bottom |-> content_height - v[2]]))

(***************************** ContentExtractor *****************************)
extract_content(img) ==
    LET content_width == img.width - 2
        content_height == img.height - 2
    IN [width |-> content_width, height |-> content_height,
        px |-> [p \in Coords(content_width, content_height) |->
                  get_pixel(img, p[1] + 1, p[2] + 1)],
        put |-> <<>>]

\* extract_content: width - 2, height - 2 and get_pixel(x + 1, y + 1)
extract_content_faults(img) ==
    underflow("width - 2", img.width, 2)
      \cup underflow("height - 2", img.height, 2)
      \cup outside("img.get_pixel",
                   {<<p[1] + 1, p[2] + 1>> : p \in Coords(img.width - 2, img.height - 2)},
                   img)

(***************************** PatchScaler **********************************)
extract_region(img, x, y, w, h) ==
    [width |-> w, height |-> h,
     px |-> [p \in Coords(w, h) |->
               IF x + p[1] < img.width /\ y + p[2] < img.height
               THEN get_pixel(img, x + p[1], y + p[2])
               ELSE Zero],
     put |-> <<>>]

\* copy_region reading the source from its origin (src_x and src_y dropped
\* from the read)
copy_region_origin(src, dst, src_x, src_y, w, h, dst_x, dst_y) ==
    Let({p \in Coords(dst.width, dst.height) :
           LET dx == p[1] - dst_x
               dy == p[2] - dst_y
           IN /\ dx \in 0 .. w - 1
              /\ dy \in 0 .. h - 1
              /\ src_x + dx < src.width
              /\ src_y + dy < src.height},
        LAMBDA written :
          [dst EXCEPT
             !.px = [p \in Coords(dst.width, dst.height) |->
                       IF p \in written
                       THEN get_pixel(src, p[1] - dst_x, p[2] - dst_y)
                       ELSE dst.px[p]],
             !.put = Append(@, written)])

copy_region(src, dst, src_x, src_y, w, h, dst_x, dst_y) ==
    Let({p \in Coords(dst.width, dst.height) :
           LET dx == p[1] - dst_x
               dy == p[2] - dst_y
           IN /\ dx \in 0 .. w - 1
              /\ dy \in 0 .. h - 1
              /\ src_x + dx < src.width
              /\ src_y + dy < src.height},
        LAMBDA written :
          [dst EXCEPT
             !.px = [p \in Coords(dst.width, dst.height) |->
                       IF p \in written
                       THEN get_pixel(src, src_x + (p[1] - dst_x), src_y + (p[2] - dst_y))
                       ELSE dst.px[p]],
             !.put = Append(@, written)])

copy_image(src, dst, dst_x, dst_y) ==
    copy_region(src, dst, 0, 0, src.width, src.height, dst_x, dst_y)

\* src_x of resize_image for destination column x (src_y for row y):
\* (x * src_width) / new_width in u32, then .min(src_width - 1); the product
\* keeps its low 32 bits, as a build without overflow checks computes it
src_coord(x, src_extent, new_extent) ==
    Min2(Div32(Mul32(x, src_extent).low, new_extent), src_extent - 1)

\* In a build with overflow checks resize_image panics at the first product
\* that does not fit: the loop body of pixel (x, y) completes only if neither
\* its own products nor those of an earlier iteration (rows before y run
\* through every column up to new_width - 1) overflow.
resize_panics(x, y, src_width, src_height, new_width) ==
    \/ Mul32(x, src_width).overflow
    \/ Mul32(y, src_height).overflow
    \/ y > 0 /\ Mul32(new_width - 1, src_width).overflow

\* nearest-neighbour resize; the loop body runs only for new_width > 0 and
\* new_height > 0
resize_image(src, new_width, new_height) ==
    [width |-> new_width, height |-> new_height,
     px |-> [p \in Coords(new_width, new_height) |->
               LET src_x == src_coord(p[1], src.width, new_width)
                   src_y == src_coord(p[2], src.height, new_height)
               IN get_pixel(src, src_x, src_y)],
     put |-> <<>>]

\* resize_image on a src_width x src_height cell: the loop body runs for
\* new_width > 0 and new_height > 0 and then evaluates src_width - 1,
\* src_height - 1 and src.get_pixel(src_x, src_y); dst.put_pixel(x, y) stays
\* below the loop bounds, which are dst's size.  extract_region and
\* copy_region test every coordinate before they use it.
resize_image_faults(src_width, src_height, new_width, new_height) ==
    IF new_width > 0 /\ new_height > 0
    THEN underflow("src_width - 1", src_width, 1)
           \cup underflow("src_height - 1", src_height, 1)
           \cup (IF /\ \A x \in 0 .. new_width - 1 :
                        src_coord(x, src_width, new_width) \in 0 .. src_width - 1
                    /\ \A y \in 0 .. new_height - 1 :
                        src_coord(y, src_height, new_height) \in 0 .. src_height - 1
                 THEN {} ELSE {"src.get_pixel"})
    ELSE {}

\* scale_nine_patch: its four subtractions and the resize_image call of each
\* stretched cell, under the cell's guard; a cell extract_region cut has the
\* width and height it was asked for
scale_nine_patch_faults(si, target_width, target_height) ==
    LET extra_width == target_width - (si.left_fixed + si.right_fixed)
        extra_height == target_height - (si.top_fixed + si.bottom_fixed)
        top_stretch_width == si.stretch_right - si.stretch_left
        left_stretch_height == si.stretch_bottom - si.stretch_top
    IN underflow("target_width - (left_fixed + right_fixed)",
                 target_width, si.left_fixed + si.right_fixed)
         \cup underflow("target_height - (top_fixed + bottom_fixed)",
                        target_height, si.top_fixed + si.bottom_fixed)
         \cup underflow("stretch_right - stretch_left", si.stretch_right, si.stretch_left)
         \cup underflow("stretch_bottom - stretch_top", si.stretch_bottom, si.stretch_top)
         \cup (IF top_stretch_width > 0
               THEN resize_image_faults(top_stretch_width, si.top_fixed,
                                        extra_width, si.top_fixed)
                      \cup resize_image_faults(top_stretch_width, si.bottom_fixed,
                                               extra_width, si.bottom_fixed)
               ELSE {})
         \cup (IF left_stretch_height > 0
               THEN resize_image_faults(si.left_fixed, left_stretch_height,
                                        si.left_fixed, extra_height)
                      \cup resize_image_faults(si.right_fixed, left_stretch_height,
                                               si.right_fixed, extra_height)
               ELSE {})
         \cup (IF top_stretch_width > 0 /\ left_stretch_height > 0
               THEN resize_image_faults(top_stretch_width, left_stretch_height,
                                        extra_width, extra_height)
               ELSE {})

\* The nine cells in the order of the code: r0 is the fresh result buffer
\* and r1 .. r9 the buffer after each cell.  Ok(result) is left in result_img.
scale_nine_patch(content, si, target_width, target_height) ==
    \E extra_width \in {target_width - (si.left_fixed + si.right_fixed)} :
    \E extra_height \in {target_height - (si.top_fixed + si.bottom_fixed)} :
    \E r0 \in {NewImage(target_width, target_height)} :
    \* top-left corner
    \E r1 \in {copy_region(content, r0, 0, 0, si.left_fixed, si.top_fixed, 0, 0)} :
    \* top edge
    \E top_stretch_width \in {si.stretch_right - si.stretch_left} :
    \E r2 \in {IF top_stretch_width > 0
               THEN Let(extract_region(content, si.stretch_left, 0,
                                       top_stretch_width, si.top_fixed),
                        LAMBDA top_section :
                    Let(resize_image(top_section, extra_width, si.top_fixed),
                        LAMBDA scaled_top :
                      copy_image(scaled_top, r1, si.left_fixed, 0)))
               ELSE r1} :
    \* top-right corner
    \E r3 \in {copy_region(content, r2, si.stretch_right, 0,
                           si.right_fixed, si.top_fixed,
                           si.left_fixed + extra_width, 0)} :
    \* left edge
    \E left_stretch_height \in {si.stretch_bottom - si.stretch_top} :
    \E r4 \in {IF left_stretch_height > 0
               THEN Let(extract_region(content, 0, si.stretch_top,
                                       si.left_fixed, left_stretch_height),
                        LAMBDA left_section :
                    Let(resize_image(left_section, si.left_fixed, extra_height),
                        LAMBDA scaled_left :
                      copy_image(scaled_left, r3, 0, si.top_fixed)))
               ELSE r3} :
    \* center
    \E r5 \in {IF top_stretch_width > 0 /\ left_stretch_height > 0
               THEN Let(extract_region(content, si.stretch_left, si.stretch_top,
                                       top_stretch_width, left_stretch_height),
                        LAMBDA center_section :
                    Let(resize_image(center_section, extra_width, extra_height),
                        LAMBDA scaled_center :
                      copy_image(scaled_center, r4, si.left_fixed, si.top_fixed)))
               ELSE r4} :
    \* right edge
    \E r6 \in {IF left_stretch_height > 0
               THEN Let(extract_region(content, si.stretch_right, si.stretch_top,
                                       si.right_fixed, left_stretch_height),
                        LAMBDA right_section :
                    Let(resize_image(right_section, si.right_fixed, extra_height),
                        LAMBDA scaled_right :
                      copy_image(scaled_right, r5, si.left_fixed + extra_width,
                                 si.top_fixed)))
               ELSE r5} :
    \* bottom-left corner
    \E r7 \in {copy_region(content, r6, 0, si.stretch_bottom,
                           si.left_fixed, si.bottom_fixed,
                           0, si.top_fixed + extra_height)} :
    \* bottom edge
    \E r8 \in {IF top_stretch_width > 0
               THEN Let(extract_region(content, si.stretch_left, si.stretch_bottom,
                                       top_stretch_width, si.bottom_fixed),
                        LAMBDA bottom_section :
                    Let(resize_image(bottom_section, extra_width, si.bottom_fixed),
                        LAMBDA scaled_bottom :
                      copy_image(scaled_bottom, r7, si.left_fixed,
                                 si.top_fixed + extra_height)))
               ELSE r7} :
    \* bottom-right corner
    \E r9 \in {copy_region(content, r8, si.stretch_right, si.stretch_bottom,
                           si.right_fixed, si.bottom_fixed,
                           si.left_fixed + extra_width, si.top_fixed + extra_height)} :
      result_img' = <<r9>>

(***************************** entry points *********************************)
Ok(val) == [ok |-> TRUE, val |-> val, err |-> ""]

Err(kind) == [ok |-> FALSE, val |-> <<>>, err |-> kind]

\* the minimum-size check rejecting a target equal to the minimum
target_too_small_or_equal(target_width, target_height, min_width, min_height) ==
    target_width <= min_width \/ target_height <= min_height

\* the minimum-size check failing only when both axes are too small
target_too_small_both(target_width, target_height, min_width, min_height) ==
    target_width < min_width /\ target_height < min_height

\* the minimum-size check looking at the width only
target_too_small_width(target_width, target_height, min_width, min_height) ==
    target_width < min_width

\* the minimum-size check of nine_patch_impl
target_too_small(target_width, target_height, min_width, min_height) ==
    target_width < min_width \/ target_height < min_height

\* Leaves its Result in resize_impl and the locals it bound in stretch_info,
\* content_img and result_img.
nine_patch_impl(bytes, target_width, target_height) ==
    \E loaded \in {load_from_memory(bytes)} :
      IF ~loaded.ok
      THEN /\ resize_impl' = <<Err("InvalidImage")>>
           /\ stretch_info' = <<>> /\ content_img' = <<>> /\ result_img' = <<>>
           /\ faults' = {}
      ELSE
    \E rgba_img \in {loaded.img} :
      IF rgba_img.width < 3 \/ rgba_img.height < 3
      THEN /\ resize_impl' = <<Err("InvalidImage")>>
           /\ stretch_info' = <<>> /\ content_img' = <<>> /\ result_img' = <<>>
           /\ faults' = {}
      ELSE
    \E si \in {parse_nine_patch_borders(rgba_img)} :
    \E min_width \in {si.left_fixed + si.right_fixed} :
    \E min_height \in {si.top_fixed + si.bottom_fixed} :
      /\ stretch_info' = <<si>>
      /\ IF target_too_small(target_width, target_height, min_width, min_height)
         THEN /\ resize_impl' = <<Err("TargetTooSmall")>>
              /\ content_img' = <<>> /\ result_img' = <<>>
              /\ faults' = parse_nine_patch_borders_faults(rgba_img)
         ELSE
           \E content \in {extract_content(rgba_img)} :
             /\ content_img' = <<content>>
             /\ scale_nine_patch(content, si, target_width, target_height)
             /\ faults' = parse_nine_patch_borders_faults(rgba_img)
                            \cup extract_content_faults(rgba_img)
                            \cup scale_nine_patch_faults(si, target_width, target_height)
             /\ \E encoded \in {write_to(result_img'[1])} :
                  resize_impl' = <<IF encoded.ok THEN Ok(encoded.bytes)
                                   ELSE Err("InvalidFormat")>>

\* the exported nine_patch: an error becomes the empty Vec
nine_patch(bytes, w, h) ==
    \E target_width \in {from_le_bytes(w)} :
    \E target_height \in {from_le_bytes(h)} :
      /\ nine_patch_impl(bytes, target_width, target_height)
      /\ resize' = <<IF resize_impl'[1].ok THEN resize_impl'[1].val ELSE <<>> >>

\* Leaves its Result in info_impl and the locals it bound in content_info and
\* info_stretch.
nine_patch_content_info_impl(bytes) ==
    \E loaded \in {load_from_memory(bytes)} :
      IF ~loaded.ok
      THEN /\ info_impl' = <<Err("InvalidImage")>>
           /\ content_info' = <<>> /\ info_stretch' = <<>>
      ELSE
    \E rgba_img \in {loaded.img} :
      IF rgba_img.width < 3 \/ rgba_img.height < 3
      THEN /\ info_impl' = <<Err("InvalidImage")>>
           /\ content_info' = <<>> /\ info_stretch' = <<>>
      ELSE
    \E ci \in {parse_content_borders(rgba_img)} :
    \E si \in {parse_nine_patch_borders(rgba_img)} :
    \E min_width \in {si.left_fixed + si.right_fixed} :
    \E min_height \in {si.top_fixed + si.bottom_fixed} :
      /\ content_info' = <<ci>>
      /\ info_stretch' = <<si>>
      /\ info_impl' = <<Ok(to_le_bytes(ci.content_left)
                          \o to_le_bytes(ci.content_top)
                          \o to_le_bytes(ci.content_right)
                          \o to_le_bytes(ci.content_bottom)
                          \o to_le_bytes(min_width)
                          \o to_le_bytes(min_height))>>

\* the exported nine_patch_content_info
nine_patch_content_info(bytes) ==
    /\ nine_patch_content_info_impl(bytes)
    /\ info' = <<IF info_impl'[1].ok THEN info_impl'[1].val ELSE <<>> >>

(***************************** inputs ***************************************)
White == <<255, 255, 255, 255>>

Transparent == <<255, 255, 255, 0>>

\* black but for one channel: not a marker
NearBlack == <<0, 0, 0, 254>>

\* the generated images are filled with the colour closest to a marker; the
\* test images keep the tests' own fills
FillColours == {NearBlack}

Border(w, h) ==
    {p \in Coords(w, h) : p[1] = 0 \/ p[1] = w - 1 \/ p[2] = 0 \/ p[2] = h - 1}

\* the subsets of S with at most k elements
RECURSIVE UpTo(_, _)
UpTo(S, k) ==
    IF k = 0 THEN {{}}
    ELSE Let(UpTo(S, k - 1), LAMBDA smaller :
           smaller \cup {m \cup {x} : m \in smaller, x \in S})

\* an interior pixel coloured by its position
Distinct(p) == <<p[1], p[2], 128, 255>>

\* A w x h image as the tests build them: filled, then marker pixels put on
\* the border; the interior is one colour (interior = <<colour>>) or coloured
\* by position (interior = <<>>).
MakeImage(w, h, fill, markers, interior) ==
    [width |-> w, height |-> h,
     px |-> [p \in Coords(w, h) |->
               IF p \in markers THEN Black
               ELSE IF p \in Border(w, h) THEN fill
               ELSE IF interior = <<>> THEN Distinct(p)
               ELSE interior[1]],
     put |-> <<>>]

\* every image up to the bounds, the too small ones (a side of 2) included
Images ==
    UNION {{MakeImage(w, h, fill, m, <<>>) :
              fill \in FillColours, m \in UpTo(Border(w, h), MaxMarkers)} :
           w \in 2 .. MaxWidth, h \in 2 .. MaxHeight}

\* tests/integration_test.rs: test_nine_patch_basic
BasicImage == MakeImage(5, 5, Transparent, {<<1, 0>>, <<0, 1>>}, <<White>>)

\* tests/integration_test.rs: test_nine_patch_too_small
TooSmallImage == MakeImage(5, 5, White, {<<2, 0>>, <<0, 2>>}, <<White>>)

\* tests/integration_test.rs: test_nine_patch_content_info
ContentInfoImage ==
    MakeImage(7, 7, White,
              {<<2, 0>>, <<3, 0>>, <<0, 2>>, <<0, 3>>,
               <<2, 6>>, <<3, 6>>, <<4, 6>>, <<5, 6>>,
               <<6, 2>>, <<6, 3>>, <<6, 4>>}, <<White>>)

\* test_nine_patch_too_small's markers on an interior coloured by position
MiddleImage == MakeImage(5, 5, Transparent, {<<2, 0>>, <<0, 2>>}, <<>>)

TestImages == {BasicImage, TooSmallImage, ContentInfoImage, MiddleImage}

\* png_data of the test images
TooSmallBytes == write_to(TooSmallImage).bytes

ContentInfoBytes == write_to(ContentInfoImage).bytes

MiddleBytes == write_to(MiddleImage).bytes

\* the target sizes the tests ask for: 10 x 8 and 1 x 1
TestTargets == {<<10, 8>>, <<1, 1>>}

\* byte strings the decoder rejects
Garbage == {<<>>, to_le_bytes(1) \o to_le_bytes(1)}

(***************************** the state machine ****************************)
Init ==
    /\ \/ \E img \in Images, tw \in 0 .. MaxTarget, th \in 0 .. MaxTarget :
            /\ image_bytes = write_to(img).bytes
            /\ width = to_le_bytes(tw)
            /\ height = to_le_bytes(th)
       \/ \E img \in TestImages, t \in TestTargets :
            /\ image_bytes = write_to(img).bytes
            /\ width = to_le_bytes(t[1])
            /\ height = to_le_bytes(t[2])
       \/ \E g \in Garbage, t \in TestTargets :
            /\ image_bytes = g
            /\ width = to_le_bytes(t[1])
            /\ height = to_le_bytes(t[2])
    /\ resize = <<>> /\ resize_impl = <<>>
    /\ stretch_info = <<>> /\ content_img = <<>> /\ result_img = <<>>
    /\ faults = {}
    /\ info = <<>> /\ info_impl = <<>>
    /\ content_info = <<>> /\ info_stretch = <<>>
    /\ sampling = <<>>

\* the host calls nine_patch(image_bytes, width, height)
NinePatch ==
    /\ resize = <<>>
    /\ nine_patch(image_bytes, width, height)
    /\ UNCHANGED <<inputs, info_vars, sampling>>

\* the host calls nine_patch_content_info(image_bytes)
NinePatchContentInfo ==
    /\ info = <<>>
    /\ nine_patch_content_info(image_bytes)
    /\ UNCHANGED <<inputs, resize_vars, sampling>>

Next == NinePatch \/ NinePatchContentInfo

Spec == Init /\ [][Next]_vars

(***************************** resize_image alone ***************************)
\* Cell and destination sizes a resize_image call can be given: a few small
\* ones and ones large enough for the 32-bit products to matter.
MaxExtent == 2

WideCell == 33

SrcExtents == (1 .. MaxExtent) \cup {WideCell, 2 ^ 16}

NewExtents == (1 .. MaxExtent) \cup {2 ^ 16, 2 ^ 27}

\* destination coordinates looked at along an axis of new_extent pixels
Coordinates(new_extent) ==
    {0, 1, new_extent \div 2, new_extent - 1} \cap (0 .. new_extent - 1)

InitResize ==
    /\ image_bytes = <<>> /\ width = to_le_bytes(0) /\ height = to_le_bytes(0)
    /\ resize = <<>> /\ resize_impl = <<>>
    /\ stretch_info = <<>> /\ content_img = <<>> /\ result_img = <<>>
    /\ faults = {}
    /\ info = <<>> /\ info_impl = <<>>
    /\ content_info = <<>> /\ info_stretch = <<>>
    /\ \E src_width \in SrcExtents, src_height \in SrcExtents,
          new_width \in NewExtents, new_height \in NewExtents,
          overflow_checks \in BOOLEAN :
         \E x \in Coordinates(new_width), y \in Coordinates(new_height) :
           sampling = <<[src_width |-> src_width, src_height |-> src_height,
                         new_width |-> new_width, new_height |-> new_height,
                         x |-> x, y |-> y,
                         overflow_checks |-> overflow_checks,
                         out |-> <<>>]>>

\* the body of resize_image's loop for destination pixel (x, y): the source
\* coordinates get_pixel is called with, or the panic of a checked build
ResizePixel ==
    /\ sampling # <<>> /\ sampling[1].out = <<>>
    /\ \E c \in {sampling[1]} :
         sampling' =
           <<[c EXCEPT !.out =
                <<IF c.overflow_checks
                      /\ resize_panics(c.x, c.y, c.src_width, c.src_height, c.new_width)
                  THEN [panicked |-> TRUE, at |-> <<>>]
                  ELSE [panicked |-> FALSE,
                        at |-> <<src_coord(c.x, c.src_width, c.new_width),
                                 src_coord(c.y, c.src_height, c.new_height)>>]>>]>>
    /\ UNCHANGED <<inputs, resize_vars, info_vars>>

NextResize == ResizePixel

SpecResize == InitResize /\ [][NextResize]_vars

(***************************** what the claims speak of *********************)
\* The input as the caller sees it, read off the border pixels directly.
Decoded == load_from_memory(image_bytes)

ValidImage == Decoded.ok /\ Decoded.img.width >= 3 /\ Decoded.img.height >= 3

TargetWidth == from_le_bytes(width)

TargetHeight == from_le_bytes(height)

ContentWidth == Decoded.img.width - 2

ContentHeight == Decoded.img.height - 2

\* content pixel (x, y): the input pixel one step in from the border
ContentPixel(x, y) == Decoded.img.px[<<x + 1, y + 1>>]

\* the scanned indices of each border line that hold a marker pixel
TopMarkers ==
    LET img == Decoded.img IN {i \in 1 .. img.width - 2 : img.px[<<i, 0>>] = Black}

LeftMarkers ==
    LET img == Decoded.img IN {i \in 1 .. img.height - 2 : img.px[<<0, i>>] = Black}

BottomMarkers ==
    LET img == Decoded.img
    IN {i \in 1 .. img.width - 2 : img.px[<<i, img.height - 1>>] = Black}

RightMarkers ==
    LET img == Decoded.img
    IN {i \in 1 .. img.height - 2 : img.px[<<img.width - 1, i>>] = Black}

First(M) == CHOOSE i \in M : \A j \in M : i <= j

Last(M) == CHOOSE i \in M : \A j \in M : j <= i

\* the fixed sizes the markers M of a line over `extent` content pixels leave
\* before and after the stretch span
FixedBefore(M, extent) == IF M = {} THEN extent ELSE First(M) - 1

FixedAfter(M, extent) == IF M = {} THEN 0 ELSE extent - Last(M)

MinWidth == FixedBefore(TopMarkers, ContentWidth) + FixedAfter(TopMarkers, ContentWidth)

MinHeight ==
    FixedBefore(LeftMarkers, ContentHeight) + FixedAfter(LeftMarkers, ContentHeight)

Admissible == ValidImage /\ TargetWidth >= MinWidth /\ TargetHeight >= MinHeight

\* the number of copy_region calls on bitmap r that wrote pixel p
TimesWritten(r, p) == Cardinality({i \in DOMAIN r.put : p \in r.put[i]})

\* the k-th u32 (k = 0 ..) of a little-endian record
Field(bytes, k) == from_le_bytes(SubSeq(bytes, 4 * k + 1, 4 * k + 4))

(***************************** C1 *******************************************)
\* C1: for every admissible target the destination rectangles of the nine
\* cells tile the output: every output pixel is written by exactly one cell.
C1_NineCellsTile ==
    result_img # <<>> =>
        LET r == result_img[1]
        IN /\ r.width = TargetWidth /\ r.height = TargetHeight
           /\ \A p \in Coords(r.width, r.height) : TimesWritten(r, p) = 1

(***************************** C2 *******************************************)
\* The Vec nine_patch returned decodes to a TargetWidth x TargetHeight bitmap,
\* the one scale_nine_patch built.
ResultHasTargetSize ==
    /\ resize[1] # <<>>
    /\ result_img # <<>>
    /\ LET d == load_from_memory(resize[1])
       IN /\ d.ok
          /\ d.img.width = TargetWidth
          /\ d.img.height = TargetHeight
          /\ d.img.px = result_img[1].px

\* C2 as stated: every target at or above the minimum, a minimum of 0 and a
\* target equal to it included, gets a non-empty result of exactly the target
\* size.
C2_EveryAdmissibleTarget ==
    (resize # <<>> /\ Admissible) => ResultHasTargetSize

\* C2: every target at or above the minimum and at least 1 x 1 gets a
\* non-empty result of exactly the target size.
C2_NonEmptyTarget ==
    (resize # <<>> /\ Admissible /\ TargetWidth >= 1 /\ TargetHeight >= 1)
        => ResultHasTargetSize

C2_Witness ==
    /\ resize # <<>> /\ Admissible
    /\ MinHeight = 0 /\ TargetHeight >= 1
    /\ TargetWidth = MinWidth /\ TargetWidth >= 1
    /\ ResultHasTargetSize

(***************************** C3 *******************************************)
\* C3: a target below the minimum on either axis fails with TargetTooSmall
\* before content extraction and scaling, and nine_patch returns the empty
\* Vec.
C3_TargetTooSmall ==
    (resize # <<>> /\ ValidImage
        /\ (TargetWidth < MinWidth \/ TargetHeight < MinHeight))
        => /\ resize = << <<>> >>
           /\ resize_impl = <<Err("TargetTooSmall")>>
           /\ content_img = <<>>
           /\ result_img = <<>>

C3_Witness ==
    /\ resize # <<>> /\ ValidImage
    /\ TargetWidth < MinWidth /\ TargetHeight >= MinHeight /\ TargetHeight >= 1
    /\ resize_impl = <<Err("TargetTooSmall")>>

(***************************** C4 *******************************************)
\* C4: with no marker in the scanned top row (left column) the minimum width
\* (height) is the content width (height), and a request at exactly that
\* width (height) gives an output whose every pixel (x, y) is a content pixel
\* of column x (row y).
C4_UnscaledCopy ==
    (resize # <<>> /\ ValidImage) =>
        /\ TopMarkers = {} =>
             /\ MinWidth = ContentWidth
             /\ (TargetWidth = MinWidth /\ TargetHeight >= MinHeight) =>
                  /\ result_img # <<>>
                  /\ LET r == result_img[1]
                     IN \A p \in Coords(r.width, r.height) :
                          \E cy \in 0 .. ContentHeight - 1 :
                            r.px[p] = ContentPixel(p[1], cy)
        /\ LeftMarkers = {} =>
             /\ MinHeight = ContentHeight
             /\ (TargetHeight = MinHeight /\ TargetWidth >= MinWidth) =>
                  /\ result_img # <<>>
                  /\ LET r == result_img[1]
                     IN \A p \in Coords(r.width, r.height) :
                          \E cx \in 0 .. ContentWidth - 1 :
                            r.px[p] = ContentPixel(cx, p[2])
(***************************** C5 *******************************************)
\* the paddings the bottom-row and right-column markers give
ContentLeft == IF BottomMarkers = {} THEN 0 ELSE First(BottomMarkers) - 1

ContentRight == IF BottomMarkers = {} THEN 0 ELSE ContentWidth - Last(BottomMarkers)

ContentTop == IF RightMarkers = {} THEN 0 ELSE First(RightMarkers) - 1

ContentBottom == IF RightMarkers = {} THEN 0 ELSE ContentHeight - Last(RightMarkers)

\* C5: the content-info operation returns six u32 in the order content_left,
\* content_top, content_right, content_bottom, min_width, min_height; the two
\* minima are the thresholds nine_patch enforces; the 7x7 image of
\* test_nine_patch_content_info gives 1, 1, 0, 1.
C5_ContentInfo ==
    (info # <<>> /\ ValidImage) =>
        LET ret == info[1]
        IN /\ Len(ret) = 6 * 4
           /\ Field(ret, 0) = ContentLeft
           /\ Field(ret, 1) = ContentTop
           /\ Field(ret, 2) = ContentRight
           /\ Field(ret, 3) = ContentBottom
           /\ Field(ret, 4) = MinWidth
           /\ Field(ret, 5) = MinHeight
           /\ resize # <<>> =>
                (resize_impl = <<Err("TargetTooSmall")>>
                   <=> (TargetWidth < Field(ret, 4) \/ TargetHeight < Field(ret, 5)))
           /\ image_bytes = ContentInfoBytes =>
                <<Field(ret, 0), Field(ret, 1), Field(ret, 2), Field(ret, 3)>>
                  = <<1, 1, 0, 1>>

C5_Witness ==
    /\ info # <<>> /\ resize # <<>>
    /\ image_bytes = ContentInfoBytes
    /\ Field(info[1], 2) = 0 /\ Field(info[1], 3) = 1

(***************************** C6 *******************************************)
\* C6: with no marker in the scanned range the stretch scan gives the
\* zero-length span at the end of the content (left_fixed = content_length,
\* right_fixed = 0) and the content-padding scan the whole content (both
\* paddings 0).
C6_Fallbacks ==
    /\ \A s \in {stretch_info, info_stretch} :
         s # <<>> =>
           /\ TopMarkers = {} =>
                /\ s[1].stretch_left = ContentWidth /\ s[1].stretch_right = ContentWidth
                /\ s[1].left_fixed = ContentWidth /\ s[1].right_fixed = 0
           /\ LeftMarkers = {} =>
                /\ s[1].stretch_top = ContentHeight /\ s[1].stretch_bottom = ContentHeight
                /\ s[1].top_fixed = ContentHeight /\ s[1].bottom_fixed = 0
    /\ content_info # <<>> =>
         /\ BottomMarkers = {} =>
              content_info[1].content_left = 0 /\ content_info[1].content_right = 0
         /\ RightMarkers = {} =>
              content_info[1].content_top = 0 /\ content_info[1].content_bottom = 0

C6_Witness ==
    /\ stretch_info # <<>> /\ content_info # <<>>
    /\ TopMarkers = {} /\ BottomMarkers = {} /\ ContentWidth >= 2
    /\ stretch_info[1].left_fixed = ContentWidth
    /\ content_info[1].content_left = 0

(***************************** C7 *******************************************)
IsTooSmallTest ==
    /\ image_bytes = TooSmallBytes
    /\ TargetWidth = 1 /\ TargetHeight = 1

C8_MarkerSpan ==
    ValidImage =>
        /\ \A s \in {stretch_info, info_stretch} :
             s # <<>> =>
               /\ TopMarkers # {} =>
                    /\ s[1].stretch_left = First(TopMarkers) - 1
                    /\ s[1].stretch_right = Last(TopMarkers)
               /\ LeftMarkers # {} =>
                    /\ s[1].stretch_top = First(LeftMarkers) - 1
                    /\ s[1].stretch_bottom = Last(LeftMarkers)
        /\ content_info # <<>> =>
             /\ BottomMarkers # {} =>
                  /\ content_info[1].content_left = First(BottomMarkers) - 1
                  /\ content_info[1].content_right = ContentWidth - Last(BottomMarkers)
             /\ RightMarkers # {} =>
                  /\ content_info[1].content_top = First(RightMarkers) - 1
                  /\ content_info[1].content_bottom = ContentHeight - Last(RightMarkers)

\* two marker runs with a near-black pixel between them, near-black corners
C8_Witness ==
    /\ ValidImage /\ stretch_info # <<>>
    /\ TopMarkers = {1, 3}
    /\ Decoded.img.px[<<2, 0>>] = NearBlack
    /\ Decoded.img.px[<<0, 0>>] = NearBlack
    /\ stretch_info[1].stretch_left = 0 /\ stretch_info[1].stretch_right = 3

(***************************** C9 *******************************************)
\* C9: every StretchInfo of parse_nine_patch_borders has left_fixed =
\* stretch_left, top_fixed = stretch_top, right_fixed = content_width -
\* stretch_right, bottom_fixed = content_height - stretch_bottom and
\* 0 <= stretch_left <= stretch_right <= content_width, likewise vertically.
C9_StretchInfo ==
    \A s \in {stretch_info, info_stretch} :
      s # <<>> =>
        LET si == s[1]
        IN /\ si.left_fixed = si.stretch_left
           /\ si.top_fixed = si.stretch_top
           /\ si.right_fixed = ContentWidth - si.stretch_right
           /\ si.bottom_fixed = ContentHeight - si.stretch_bottom
           /\ 0 <= si.stretch_left /\ si.stretch_left <= si.stretch_right
           /\ si.stretch_right <= ContentWidth
           /\ 0 <= si.stretch_top /\ si.stretch_top <= si.stretch_bottom
           /\ si.stretch_bottom <= ContentHeight
           /\ si.left_fixed + si.right_fixed <= ContentWidth
           /\ si.top_fixed + si.bottom_fixed <= ContentHeight

C9_Witness ==
    /\ stretch_info # <<>>
    /\ 0 < stretch_info[1].stretch_left
    /\ stretch_info[1].stretch_left < stretch_info[1].stretch_right
    /\ stretch_info[1].stretch_right < ContentWidth
    /\ 0 < stretch_info[1].stretch_top
    /\ stretch_info[1].stretch_top < stretch_info[1].stretch_bottom
    /\ stretch_info[1].stretch_bottom < ContentHeight

(***************************** C10 ******************************************)
\* C10: the four corner cells of the output are unscaled copies of the
\* content, the far ones offset by extra_width / extra_height, and each corner
\* pixel is written once (no later cell overwrites it).
C10_Corners ==
    result_img # <<>> =>
        LET r == result_img[1]
            left_fixed == FixedBefore(TopMarkers, ContentWidth)
            right_fixed == FixedAfter(TopMarkers, ContentWidth)
            top_fixed == FixedBefore(LeftMarkers, ContentHeight)
            bottom_fixed == FixedAfter(LeftMarkers, ContentHeight)
            stretch_right == ContentWidth - right_fixed
            stretch_bottom == ContentHeight - bottom_fixed
            extra_width == TargetWidth - (left_fixed + right_fixed)
            extra_height == TargetHeight - (top_fixed + bottom_fixed)
            Copied(x, y, cx, cy) ==
                /\ <<x, y>> \in DOMAIN r.px
                /\ r.px[<<x, y>>] = ContentPixel(cx, cy)
                /\ TimesWritten(r, <<x, y>>) = 1
        IN /\ \A x \in 0 .. left_fixed - 1, y \in 0 .. top_fixed - 1 :
                Copied(x, y, x, y)
           /\ \A dx \in 0 .. right_fixed - 1, y \in 0 .. top_fixed - 1 :
                Copied(left_fixed + extra_width + dx, y, stretch_right + dx, y)
           /\ \A x \in 0 .. left_fixed - 1, dy \in 0 .. bottom_fixed - 1 :
                Copied(x, top_fixed + extra_height + dy, x, stretch_bottom + dy)
           /\ \A dx \in 0 .. right_fixed - 1, dy \in 0 .. bottom_fixed - 1 :
                Copied(left_fixed + extra_width + dx, top_fixed + extra_height + dy,
                       stretch_right + dx, stretch_bottom + dy)

\* four non-empty corners around a stretched middle, on the position-coloured
\* interior
C10_Witness ==
    /\ result_img # <<>>
    /\ image_bytes = MiddleBytes
    /\ TargetWidth = 10 /\ TargetHeight = 8
    /\ result_img[1].px[<<9, 7>>] = ContentPixel(2, 2)
(***************************** C11 ******************************************)
\* <<q, r>> with x * s = q * n + r and 0 <= r < n, over the integers, by
\* halving s
RECURSIVE MulDivMod(_, _, _)
MulDivMod(x, s, n) ==
    IF s = 0 THEN <<0, 0>>
    ELSE Let(MulDivMod(x, s \div 2, n), LAMBDA h :
           LET t == 2 * h[2] + (s % 2) * x
           IN <<2 * h[1] + t \div n, t % n>>)

\* min(floor(x * src_extent / new_extent), src_extent - 1) over the integers
MathematicalCoord(x, src_extent, new_extent) ==
    Min2(MulDivMod(x, src_extent, new_extent)[1], src_extent - 1)

\* C11: for every source cell of at least 1 x 1 and every destination pixel,
\* resize_image samples the source at (min(floor(x*src_w/dst_w), src_w-1),
\* min(floor(y*src_h/dst_h), src_h-1)) with the products taken over the
\* integers: the 32-bit multiplication never changes the sample.
C11_MathematicalSample ==
    (sampling # <<>> /\ sampling[1].out # <<>>) =>
        LET c == sampling[1]
        IN c.out[1] =
             [panicked |-> FALSE,
              at |-> <<MathematicalCoord(c.x, c.src_width, c.new_width),
                       MathematicalCoord(c.y, c.src_height, c.new_height)>>]
(***************************** C12 ******************************************)
\* C12: for every image of at least 3 x 3 and every target that passes the
\* minimum-size check, no unsigned subtraction of the pipeline underflows
\* (src_width - 1 and src_height - 1 are not evaluated for a cell with a zero
\* dimension) and every pixel access lies inside its bitmap.
C12_NoUnderflowInBounds ==
    (resize # <<>> /\ ValidImage /\ resize_impl # <<Err("TargetTooSmall")>>)
        => faults = {}

\* a stretched top edge of height 0 (top_fixed = 0) next to a centre that is
\* resized, on a target above the minimum on both axes
C12_Witness ==
    /\ resize # <<>> /\ ValidImage /\ result_img # <<>>
    /\ stretch_info[1].top_fixed = 0
    /\ stretch_info[1].stretch_right > stretch_info[1].stretch_left
    /\ stretch_info[1].stretch_bottom > stretch_info[1].stretch_top
    /\ TargetWidth > MinWidth /\ TargetHeight > MinHeight
    /\ faults = {}

====
